---- MODULE Spec2Model ----
(***************************************************************************)
(* Field-boundary segmentation notebook (flevoland_field_boundary.ipynb).  *)
(*                                                                         *)
(* The notebook is one straight-line script: it fixes its configuration,   *)
(* selects Sentinel-2 scenes, builds a cloud-masked median composite,      *)
(* samples four hand-drawn polygons, trains and applies a classifier,      *)
(* detects and binarizes edges, vectorizes them and renders a map.  The    *)
(* model has one action per statement (pc names the next statement) and    *)
(* one variable per Python name the statement binds.  Earth Engine calls   *)
(* are modelled by what the client code asks of them, as synchronous       *)
(* calls: each returns a new value or raises at the statement that makes   *)
(* it.  What the remote classifier and edge detector compute is left open  *)
(* (any labelling by trained classes, any non-negative edge strengths).    *)
(* Reflectances are exact rationals <<n, d>>; floating-point rounding is    *)
(* not modelled.                                                           *)
(***************************************************************************)
EXTENDS Integers, Sequences, FiniteSets, TLC

VARIABLES
  pc, error, runs, catalog, config,
  s2_collection, collection_size, composite_image, ground_truth,
  training_data, classifier, classification_map, edges, binary_edges,
  field_boundaries, Map,
  image, masked_image, ndvi_image,
  raster, binary_raster, rebinarized

vars == <<pc, error, runs, catalog, config,
          s2_collection, collection_size, composite_image, ground_truth,
          training_data, classifier, classification_map, edges, binary_edges,
          field_boundaries, Map,
          image, masked_image, ndvi_image,
          raster, binary_raster, rebinarized>>

pipelineVars == <<pc, error, runs, catalog, config,
          s2_collection, collection_size, composite_image, ground_truth,
          training_data, classifier, classification_map, edges, binary_edges,
          field_boundaries, Map>>

sceneVars == <<image, masked_image, ndvi_image>>

rasterVars == <<raster, binary_raster, rebinarized>>

(***************************************************************************)
(* Bounds of the model.                                                    *)
(***************************************************************************)
\* Width in bits of the QA60 flag values enumerated (bits 0 .. QABits-1).
QABits == 13
\* Raw digital numbers 0 .. MaxDN are enumerated for B4 and B8.
MaxDN == 6
\* Edge strengths -MaxEdge .. MaxEdge are enumerated for the raster unit.
MaxEdge == 2
\* Pixels of the raster handed to the binarization unit.
RasterPixels == 3
\* Columns of the pixel grid laid over the AOI (the grid has two rows).
GridW == 2

(***************************************************************************)
(* A Python name is unbound (<<>>) or bound to a value (<<v>>).            *)
(***************************************************************************)
None == <<>>

Some(v) == <<v>>

IsSet(x) == x # None

Val(x) == x[1]

(***************************************************************************)
(* Exact rationals <<n, d>>, d > 0, kept in lowest terms.                  *)
(***************************************************************************)
Abs(n) == IF n < 0 THEN -n ELSE n

RECURSIVE Gcd(_, _)
Gcd(a, b) == IF b = 0 THEN a ELSE Gcd(b, a % b)

Rat(n, d) ==
  LET g == Gcd(Abs(n), Abs(d))
      s == IF d < 0 THEN -1 ELSE 1
  IN  IF n = 0 THEN <<0, 1>> ELSE <<s * (n \div g), s * (d \div g)>>

RatAdd(a, b) == Rat(a[1] * b[2] + b[1] * a[2], a[2] * b[2])

RatSub(a, b) == Rat(a[1] * b[2] - b[1] * a[2], a[2] * b[2])

RatDiv(a, b) == Rat(a[1] * b[2], a[2] * b[1])

RatDivInt(a, k) == Rat(a[1], a[2] * k)

(***************************************************************************)
(* Section 3 of the notebook: per-pixel image functions.  A pixel of an    *)
(* image is [val : band -> rational, mask : band -> BOOLEAN]; a band whose *)
(* mask is FALSE has no data at that pixel.                                *)
(***************************************************************************)
RECURSIVE bitwiseAnd(_, _)
bitwiseAnd(a, b) ==
  IF a = 0 \/ b = 0 THEN 0
  ELSE (a % 2) * (b % 2) + 2 * bitwiseAnd(a \div 2, b \div 2)

ShiftLeft(a, n) == a * 2 ^ n

cloud_bit_mask == ShiftLeft(1, 10)

cirrus_bit_mask == ShiftLeft(1, 11)

ReflectanceScale == 10000

\* qa.bitwiseAnd(cloud_bit_mask).eq(0).And(qa.bitwiseAnd(cirrus_bit_mask).eq(0))
qa_mask_cirrus_only(qa) == bitwiseAnd(qa, cirrus_bit_mask) = 0

qa_mask(qa) ==
  /\ bitwiseAnd(qa, cloud_bit_mask) = 0
  /\ bitwiseAnd(qa, cirrus_bit_mask) = 0

\* image.updateMask(mask): a band keeps its data only where mask is set.
updateMask(px, m) ==
  [px EXCEPT !.mask = [b \in DOMAIN px.mask |-> px.mask[b] /\ m]]

\* image.divide(10000): every band of the image, QA60 included.
divide(px, k) ==
  [px EXCEPT !.val = [b \in DOMAIN px.val |-> RatDivInt(px.val[b], k)]]

mask_s2_clouds(px) ==
  LET qa == px.val["QA60"][1]
      mask == qa_mask(qa)
  IN  divide(updateMask(px, mask), ReflectanceScale)

\* image.normalizedDifference([a, b]): (a - b) / (a + b); no data where an
\* input has none, is negative, or the sum is zero.
ndValue(x, y) ==
  IF RatAdd(x, y)[1] = 0 THEN <<0, 1>>
  ELSE RatDiv(RatSub(x, y), RatAdd(x, y))

ndMask(px, a, b) ==
  /\ px.mask[a] /\ px.mask[b]
  /\ px.val[a][1] >= 0 /\ px.val[b][1] >= 0
  /\ RatAdd(px.val[a], px.val[b])[1] # 0

normalizedDifference(px, a, b) ==
  [val |-> ndValue(px.val[a], px.val[b]), mask |-> ndMask(px, a, b)]

\* image.addBands(band.rename(name))
addBands(px, name, band) ==
  [val  |-> [b \in DOMAIN px.val \cup {name} |->
               IF b = name THEN band.val ELSE px.val[b]],
   mask |-> [b \in DOMAIN px.mask \cup {name} |->
               IF b = name THEN band.mask ELSE px.mask[b]]]

add_ndvi_swapped(px) == addBands(px, "NDVI", normalizedDifference(px, "B4", "B8"))

add_ndvi(px) == addBands(px, "NDVI", normalizedDifference(px, "B8", "B4"))

(***************************************************************************)
(* The per-pixel unit: one scene pixel through .map(mask_s2_clouds) and    *)
(* .map(add_ndvi), in the order line 54 of the notebook applies them.      *)
(***************************************************************************)
SceneBands == {"B2", "B3", "B4", "B8", "QA60"}

DN(n) == <<n, 1>>

RawPixel(qa, red, nir) ==
  [val  |-> [b \in SceneBands |->
               CASE b = "QA60" -> DN(qa)
                 [] b = "B4"   -> DN(red)
                 [] b = "B8"   -> DN(nir)
                 [] OTHER      -> DN(1000)],
   mask |-> [b \in SceneBands |-> TRUE]]

QAValues == 0 .. (2 ^ QABits - 1)

DNValues == (0 .. MaxDN) \cup {2000, 5000}

SceneInit ==
  /\ \/ \E qa \in QAValues : image = Some(RawPixel(qa, 2000, 5000))
     \/ \E qa \in {0, 1024, 2048, 3072}, red \in DNValues, nir \in DNValues :
          image = Some(RawPixel(qa, red, nir))
  /\ masked_image = None
  /\ ndvi_image = None

MapMaskS2Clouds ==
  /\ IsSet(image) /\ masked_image = None
  /\ masked_image' = Some(mask_s2_clouds(Val(image)))
  /\ UNCHANGED <<image, ndvi_image, pipelineVars, rasterVars>>

MapAddNdvi ==
  /\ IsSet(masked_image) /\ ndvi_image = None
  /\ ndvi_image' = Some(add_ndvi(Val(masked_image)))
  /\ UNCHANGED <<image, masked_image, pipelineVars, rasterVars>>

SceneNext == MapMaskS2Clouds \/ MapAddNdvi

(***************************************************************************)
(* The raster unit: the comparison of line 124, edges.gt(0), on a          *)
(* single-band raster.  A raster is a function from the pixels that have   *)
(* data to their values; gt keeps the pixels and their order.              *)
(***************************************************************************)
gte(r, k) == [p \in DOMAIN r |-> IF r[p] >= k THEN 1 ELSE 0]

gt(r, k) == [p \in DOMAIN r |-> IF r[p] > k THEN 1 ELSE 0]

\* image.selfMask(): no data where the value is zero.
selfMask(r) == [p \in {q \in DOMAIN r : r[q] # 0} |-> r[p]]

binarize_gte(r) == gte(r, 0)

binarize_selfMasked(r) == selfMask(gt(r, 0))

\* line 124: binary_edges = edges.gt(0)
binarize(r) == gt(r, 0)

EdgeStrengths == (-MaxEdge) .. MaxEdge

RasterInit ==
  /\ \E V \in SUBSET (1 .. RasterPixels) :
       \E r \in [V -> EdgeStrengths] : raster = Some(r)
  /\ binary_raster = None
  /\ rebinarized = None

BinarizeRaster ==
  /\ IsSet(raster) /\ binary_raster = None
  /\ binary_raster' = Some(binarize(Val(raster)))
  /\ UNCHANGED <<raster, rebinarized, pipelineVars, sceneVars>>

RebinarizeRaster ==
  /\ IsSet(binary_raster) /\ rebinarized = None
  /\ rebinarized' = Some(binarize(Val(binary_raster)))
  /\ UNCHANGED <<raster, binary_raster, pipelineVars, sceneVars>>

RasterNext == BinarizeRaster \/ RebinarizeRaster

(***************************************************************************)
(* Section 2 of the notebook: project configuration.  Coordinates are in   *)
(* thousandths of a degree, dates are yyyymmdd.                            *)
(***************************************************************************)
AOI == [west |-> 5300, south |-> 52400, east |-> 5700, north |-> 52600]

START_DATE == 20220701

END_DATE == 20220731

BANDS == <<"B2", "B3", "B4", "B8">>

FEATURE_BANDS == BANDS \o <<"NDVI">>

CLASSES ==
  ("Field" :> [value |-> 1, color |-> "green"]) @@
  ("Non-Field" :> [value |-> 0, color |-> "gray"])

CLASS_PROPERTY == "landcover"

Configuration ==
  [AOI |-> AOI, START_DATE |-> START_DATE, END_DATE |-> END_DATE,
   BANDS |-> BANDS, FEATURE_BANDS |-> FEATURE_BANDS,
   CLASSES |-> CLASSES, CLASS_PROPERTY |-> CLASS_PROPERTY]

(***************************************************************************)
(* The pixel grid over the AOI: GridW columns by two rows.  The remote     *)
(* platform's scenes carry, per pixel, a QA60 flag; reflectance values are *)
(* not tracked at this level (the per-pixel unit above computes them), an  *)
(* image is its band names and the set of pixels where it has data.        *)
(***************************************************************************)
Pix == (1 .. GridW) \X (1 .. 2)

PixelAt(lon, lat) ==
  << ((lon - AOI.west) * GridW) \div (AOI.east - AOI.west) + 1,
     ((lat - AOI.south) * 2) \div (AOI.north - AOI.south) + 1 >>

Range(s) == {s[i] : i \in DOMAIN s}

\* The cells of the grid a polygon's ring touches.
Covered(ring) == {PixelAt(v[1], v[2]) : v \in Range(ring)} \cap Pix

AllBands == SceneBands

Scene(id, footprint, date, cloudy, qa) ==
  [id |-> id, bands |-> AllBands, footprint |-> footprint, date |-> date,
   CLOUDY_PIXEL_PERCENTAGE |-> cloudy, QA60 |-> qa]

\* Scenes of COPERNICUS/S2_SR_HARMONIZED that pass the filters of lines
\* 43-45: clear, cloudy over the western column, cirrus everywhere, and one
\* whose footprint is the eastern column only, taken on the first day.
Selectable ==
  { Scene("clear",       Pix, 20220715, 2, [p \in Pix |-> 0]),
    Scene("cloudy_west", Pix, 20220710, 9,
          [p \in Pix |-> IF p[1] = 1 THEN 1024 ELSE 0]),
    Scene("cirrus",      Pix, 20220720, 5, [p \in Pix |-> 2048 + 1]),
    Scene("east_strip",  {p \in Pix : p[1] = GridW}, 20220701, 0,
          [p \in Pix |-> 0]) }

\* Scenes that each fail exactly one filter: taken on END_DATE, at the cloud
\* ceiling, and off the AOI.  The archive always holds them.
Filtered ==
  { Scene("last_day",  Pix, 20220731, 0, [p \in Pix |-> 0]),
    Scene("hazy",      Pix, 20220705, 10, [p \in Pix |-> 0]),
    Scene("elsewhere", {}, 20220715, 0, [p \in Pix |-> 0]) }

Archives == {Filtered \cup S : S \in SUBSET Selectable}

CloudCeiling == 10

\* .filterBounds(AOI): the scene's footprint intersects the AOI.
filterBounds(coll, aoi) == {s \in coll : s.footprint \cap Pix # {}}

\* .filterDate(start, end): start inclusive, end exclusive.
filterDate(coll, start, end) == {s \in coll : start <= s.date /\ s.date < end}

\* .filter(ee.Filter.lt('CLOUDY_PIXEL_PERCENTAGE', 10))
filterCloudy(coll, ceiling) ==
  {s \in coll : s.CLOUDY_PIXEL_PERCENTAGE < ceiling}

SelectScenes(cat, cfg) ==
  filterCloudy(filterDate(filterBounds(cat, cfg.AOI),
                          cfg.START_DATE, cfg.END_DATE), CloudCeiling)

\* .map(mask_s2_clouds) on a scene: data stays where the QA60 test passes.
MaskedScene(s) ==
  [bands |-> s.bands, valid |-> {p \in s.footprint : qa_mask(s.QA60[p])}]

\* .map(add_ndvi) on a scene: one more band, NDVI (reflectances are taken
\* to be positive here, so NDVI has data wherever the scene has).
NdviScene(m) == [bands |-> m.bands \cup {"NDVI"}, valid |-> m.valid]

\* .median(): per band and pixel over the scenes that have data there.
median(imgs) ==
  [bands |-> UNION {i.bands : i \in imgs},
   valid |-> UNION {i.valid : i \in imgs}]

\* .select(names): exactly the named bands, in the order named.
select(img, names) == [bands |-> names, valid |-> img.valid]

CompositeOfBandsOnly(coll, cfg) ==
  select(median({NdviScene(MaskedScene(s)) : s \in coll}), cfg.BANDS)

CompositeOf(coll, cfg) ==
  select(median({NdviScene(MaskedScene(s)) : s \in coll}), cfg.FEATURE_BANDS)

(***************************************************************************)
(* Sections 4 to 6 of the notebook: the remote operations the script       *)
(* calls, as functions of their arguments.                                 *)
(***************************************************************************)
Polygon(ring, properties) == [geometry |-> ring, properties |-> properties]

\* ee.FeatureCollection([...]) of lines 63-79: four polygons, in this order.
GroundTruth(cfg) ==
  << Polygon(<<<<5450, 52550>>, <<5450, 52540>>, <<5460, 52540>>, <<5460, 52550>>>>,
             "landcover" :> cfg.CLASSES["Field"].value),
     Polygon(<<<<5550, 52480>>, <<5550, 52470>>, <<5560, 52470>>, <<5560, 52480>>>>,
             "landcover" :> cfg.CLASSES["Field"].value),
     Polygon(<<<<5340, 52430>>, <<5340, 52420>>, <<5350, 52420>>, <<5350, 52430>>>>,
             "landcover" :> cfg.CLASSES["Non-Field"].value),
     Polygon(<<<<5650, 52520>>, <<5650, 52510>>, <<5660, 52510>>, <<5660, 52520>>>>,
             "landcover" :> cfg.CLASSES["Non-Field"].value) >>

\* The properties of a region that sampleRegions copies to its samples.
CopiedNone(feature, properties) == << >>

Copied(feature, properties) ==
  [k \in Range(properties) \cap DOMAIN feature.properties |->
     feature.properties[k]]

\* image.sampleRegions(collection, properties, scale = 10, tileScale = 4):
\* one sample per region and pixel of the region where the image has data.
\* The scale is the pixel grid; tileScale only partitions the remote work.
sampleRegions(img, collection, properties) ==
  { [region |-> ip[1], pixel |-> ip[2], bands |-> Range(img.bands),
     properties |-> Copied(collection[ip[1]], properties)] :
    ip \in {jq \in (DOMAIN collection) \X Pix :
              jq[2] \in Covered(collection[jq[1]].geometry) \cap img.valid} }

NumTrees == 20

\* Training is refused when there is nothing to train on, or a sample lacks
\* the class property or a predictor.
TrainingRefused(features, classProperty, inputProperties) ==
  \/ features = {}
  \/ \E f \in features :
       \/ classProperty \notin DOMAIN f.properties
       \/ ~ (Range(inputProperties) \subseteq f.bands)

\* ee.Classifier.smileRandomForest(20).train(features, classProperty,
\* inputProperties)
train(features, classProperty, inputProperties) ==
  [numberOfTrees |-> NumTrees, classProperty |-> classProperty,
   inputProperties |-> inputProperties,
   classes |-> {f.properties[classProperty] : f \in features}]

\* image.classify(classifier): a label of a trained class at every pixel
\* where the image has data; which one is the remote model's choice.
Classifications(img, cls) == [img.valid -> cls.classes]

ClassifyRefused(img, cls) == ~ (Range(cls.inputProperties) \subseteq Range(img.bands))

\* ee.Algorithms.CannyEdgeDetector(image, threshold = 0.1, sigma = 1): an
\* edge strength, zero or positive, at every pixel of the input.
CannyEdges(img) == [DOMAIN img -> {0, MaxEdge}]

Adjacent(p, q, eightConnected) ==
  /\ p # q
  /\ Abs(p[1] - q[1]) <= 1 /\ Abs(p[2] - q[2]) <= 1
  /\ eightConnected \/ p[1] = q[1] \/ p[2] = q[2]

RECURSIVE Grow(_, _, _)
Grow(img, S, eightConnected) ==
  LET N == S \cup {q \in DOMAIN img :
                     \E p \in S : Adjacent(p, q, eightConnected) /\ img[q] = img[p]}
  IN  IF N = S THEN S ELSE Grow(img, N, eightConnected)

countEvery(R) == Cardinality(R)

\* image.reduceToVectors(scale, geometry, eightConnected, labelProperty,
\* reducer): one feature per connected region of equal value inside the
\* geometry, carrying the value as 'label' and the reducer's output.
reduceToVectors(img, geometry, eightConnected) ==
  { [geometry |-> R, label |-> img[CHOOSE p \in R : TRUE], count |-> countEvery(R)] :
    R \in {Grow(img, {p}, eightConnected) : p \in DOMAIN img \cap Pix} }

(***************************************************************************)
(* The script, statement by statement.                                     *)
(***************************************************************************)
Statements ==
  << "configure", "select", "size", "check", "composite", "ground_truth",
     "sample", "train", "classify", "canny", "binarize", "vectorize",
     "map", "center", "layer_rgb", "layer_seg", "layer_vec", "legend",
     "display", "done" >>

Position(l) == CHOOSE i \in DOMAIN Statements : Statements[i] = l

SuccRerun(l) ==
  IF l = "display" THEN "select" ELSE Statements[Position(l) + 1]

Succ(l) == Statements[Position(l) + 1]

\* The statements that call the Earth Engine client (ee.*, or geemap with an
\* ee object) and may raise its error.
RemoteCalls ==
  { "configure", "select", "size", "composite", "ground_truth", "sample",
    "train", "classify", "canny", "binarize", "vectorize", "center",
    "layer_rgb", "layer_seg", "layer_vec" }

Ran(l) == runs' = [runs EXCEPT ![l] = @ + 1]

Step(l) == pc = l /\ pc' = Succ(l) /\ Ran(l) /\ error' = error

RaiseSwallowed(l, type) ==
  /\ pc = l /\ pc' = Succ(l) /\ Ran(l)
  /\ error' = Some([type |-> type, at |-> l])

Raise(l, type) ==
  /\ pc = l /\ pc' = "aborted" /\ Ran(l)
  /\ error' = Some([type |-> type, at |-> l])

PipelineInit ==
  /\ pc = "configure"
  /\ error = None
  /\ runs = [l \in Range(Statements) |-> 0]
  /\ catalog \in Archives
  /\ config = None
  /\ s2_collection = None /\ collection_size = None
  /\ composite_image = None /\ ground_truth = None
  /\ training_data = None /\ classifier = None
  /\ classification_map = None /\ edges = None /\ binary_edges = None
  /\ field_boundaries = None /\ Map = None

\* lines 8-23
Configure ==
  /\ Step("configure")
  /\ config' = Some(Configuration)
  /\ UNCHANGED <<sceneVars, rasterVars, catalog, s2_collection,
               collection_size, composite_image, ground_truth,
               training_data, classifier, classification_map, edges,
               binary_edges, field_boundaries, Map>>

\* lines 42-45
SelectScenes_ ==
  /\ Step("select")
  /\ s2_collection' = Some(SelectScenes(catalog, Val(config)))
  /\ UNCHANGED <<sceneVars, rasterVars, catalog, config, collection_size,
               composite_image, ground_truth, training_data, classifier,
               classification_map, edges, binary_edges, field_boundaries,
               Map>>

\* line 48: s2_collection.size().getInfo()
GetSize ==
  /\ Step("size")
  /\ collection_size' = Some(Cardinality(Val(s2_collection)))
  /\ UNCHANGED <<sceneVars, rasterVars, catalog, config, s2_collection,
               composite_image, ground_truth, training_data, classifier,
               classification_map, edges, binary_edges, field_boundaries,
               Map>>

\* What line 50 tests before raising.
IsEmptyNever(n) == FALSE

IsEmpty(n) == n = 0

\* lines 50-51
CheckSize ==
  /\ pc = "check"
  /\ IF IsEmpty(Val(collection_size))
       THEN Raise("check", "ValueError")
       ELSE Step("check")
  /\ UNCHANGED <<sceneVars, rasterVars, catalog, config, s2_collection,
               collection_size, composite_image, ground_truth,
               training_data, classifier, classification_map, edges,
               binary_edges, field_boundaries, Map>>

\* line 54, had it rebound s2_collection to the mapped collection
BuildCompositeRebinding ==
  /\ Step("composite")
  /\ composite_image' = Some(CompositeOf(Val(s2_collection), Val(config)))
  /\ s2_collection' =
       Some({[sc EXCEPT !.bands = @ \cup {"NDVI"}] : sc \in Val(s2_collection)})
  /\ UNCHANGED <<sceneVars, rasterVars, catalog, config, collection_size,
               ground_truth, training_data, classifier, classification_map,
               edges, binary_edges, field_boundaries, Map>>

\* line 54
BuildComposite ==
  /\ Step("composite")
  /\ composite_image' = Some(CompositeOf(Val(s2_collection), Val(config)))
  /\ UNCHANGED <<sceneVars, rasterVars, catalog, config, s2_collection,
               collection_size, ground_truth, training_data, classifier,
               classification_map, edges, binary_edges, field_boundaries,
               Map>>

\* lines 63-79
DefineGroundTruth ==
  /\ Step("ground_truth")
  /\ ground_truth' = Some(GroundTruth(Val(config)))
  /\ UNCHANGED <<sceneVars, rasterVars, catalog, config, s2_collection,
               collection_size, composite_image, training_data, classifier,
               classification_map, edges, binary_edges, field_boundaries,
               Map>>

\* lines 82-87
Sample ==
  /\ Step("sample")
  /\ training_data' =
       Some(sampleRegions(Val(composite_image), Val(ground_truth),
                          <<Val(config).CLASS_PROPERTY>>))
  /\ UNCHANGED <<sceneVars, rasterVars, catalog, config, s2_collection,
               collection_size, composite_image, ground_truth, classifier,
               classification_map, edges, binary_edges, field_boundaries,
               Map>>

\* lines 96-100
Train ==
  /\ pc = "train"
  /\ IF TrainingRefused(Val(training_data), Val(config).CLASS_PROPERTY,
                        Val(config).FEATURE_BANDS)
       THEN Raise("train", "EEException") /\ classifier' = classifier
       ELSE /\ Step("train")
            /\ classifier' =
                 Some(train(Val(training_data), Val(config).CLASS_PROPERTY,
                            Val(config).FEATURE_BANDS))
  /\ UNCHANGED <<sceneVars, rasterVars, catalog, config, s2_collection,
               collection_size, composite_image, ground_truth,
               training_data, classification_map, edges, binary_edges,
               field_boundaries, Map>>

\* line 104
Classify ==
  /\ pc = "classify"
  /\ IF ClassifyRefused(Val(composite_image), Val(classifier))
       THEN Raise("classify", "EEException")
            /\ classification_map' = classification_map
       ELSE /\ Step("classify")
            /\ \E m \in Classifications(Val(composite_image), Val(classifier)) :
                 classification_map' = Some(m)
  /\ UNCHANGED <<sceneVars, rasterVars, catalog, config, s2_collection,
               collection_size, composite_image, ground_truth,
               training_data, classifier, edges, binary_edges,
               field_boundaries, Map>>

\* lines 113-117
DetectEdges ==
  /\ Step("canny")
  /\ \E e \in CannyEdges(Val(classification_map)) : edges' = Some(e)
  /\ UNCHANGED <<sceneVars, rasterVars, catalog, config, s2_collection,
               collection_size, composite_image, ground_truth,
               training_data, classifier, classification_map, binary_edges,
               field_boundaries, Map>>

\* line 124
Binarize ==
  /\ Step("binarize")
  /\ binary_edges' = Some(binarize(Val(edges)))
  /\ UNCHANGED <<sceneVars, rasterVars, catalog, config, s2_collection,
               collection_size, composite_image, ground_truth,
               training_data, classifier, classification_map, edges,
               field_boundaries, Map>>

\* lines 128-134
Vectorize ==
  /\ Step("vectorize")
  /\ field_boundaries' =
       Some(reduceToVectors(Val(binary_edges), Val(config).AOI, TRUE))
  /\ UNCHANGED <<sceneVars, rasterVars, catalog, config, s2_collection,
               collection_size, composite_image, ground_truth,
               training_data, classifier, classification_map, edges,
               binary_edges, Map>>

Zoom == 12

Layer(object, vis, name) == [ee_object |-> object, vis_params |-> vis, name |-> name]

\* line 141: geemap.Map()
NewMap ==
  /\ Step("map")
  /\ Map' = Some([center |-> None, zoom |-> None, layers |-> << >>,
                  legend |-> None, displayed |-> FALSE])
  /\ UNCHANGED <<sceneVars, rasterVars, catalog, config, s2_collection,
               collection_size, composite_image, ground_truth,
               training_data, classifier, classification_map, edges,
               binary_edges, field_boundaries>>

\* line 142
CenterObject ==
  /\ Step("center")
  /\ Map' = Some([Val(Map) EXCEPT !.center = Some(Val(config).AOI),
                                  !.zoom = Some(Zoom)])
  /\ UNCHANGED <<sceneVars, rasterVars, catalog, config, s2_collection,
               collection_size, composite_image, ground_truth,
               training_data, classifier, classification_map, edges,
               binary_edges, field_boundaries>>

\* lines 145-148
AddCompositeLayer ==
  /\ Step("layer_rgb")
  /\ Map' = Some([Val(Map) EXCEPT !.layers =
       Append(@, Layer(Val(composite_image),
                       [bands |-> <<"B4", "B3", "B2">>, min |-> <<0, 1>>, max |-> <<3, 10>>],
                       "True Color Composite"))])
  /\ UNCHANGED <<sceneVars, rasterVars, catalog, config, s2_collection,
               collection_size, composite_image, ground_truth,
               training_data, classifier, classification_map, edges,
               binary_edges, field_boundaries>>

\* line 151
AddSegmentationLayer ==
  /\ Step("layer_seg")
  /\ Map' = Some([Val(Map) EXCEPT !.layers =
       Append(@, Layer(Val(classification_map),
                       [min |-> 0, max |-> 1, palette |-> <<"gray", "green">>],
                       "Intermediate Segmentation"))])
  /\ UNCHANGED <<sceneVars, rasterVars, catalog, config, s2_collection,
               collection_size, composite_image, ground_truth,
               training_data, classifier, classification_map, edges,
               binary_edges, field_boundaries>>

\* line 154
AddBoundaryLayer ==
  /\ Step("layer_vec")
  /\ Map' = Some([Val(Map) EXCEPT !.layers =
       Append(@, Layer(Val(field_boundaries), [color |-> "yellow"],
                       "Extracted Field Boundaries"))])
  /\ UNCHANGED <<sceneVars, rasterVars, catalog, config, s2_collection,
               collection_size, composite_image, ground_truth,
               training_data, classifier, classification_map, edges,
               binary_edges, field_boundaries>>

\* line 157
AddLegend ==
  /\ Step("legend")
  /\ Map' = Some([Val(Map) EXCEPT !.legend =
       Some([title |-> "Legend", keys |-> <<"Field Boundary">>,
             colors |-> <<"yellow">>])])
  /\ UNCHANGED <<sceneVars, rasterVars, catalog, config, s2_collection,
               collection_size, composite_image, ground_truth,
               training_data, classifier, classification_map, edges,
               binary_edges, field_boundaries>>

\* lines 160-161
Display ==
  /\ Step("display")
  /\ Map' = Some([Val(Map) EXCEPT !.displayed = TRUE])
  /\ UNCHANGED <<sceneVars, rasterVars, catalog, config, s2_collection,
               collection_size, composite_image, ground_truth,
               training_data, classifier, classification_map, edges,
               binary_edges, field_boundaries>>

\* any call of the remote platform may raise; nothing catches it
RemoteFailure ==
  /\ pc \in RemoteCalls
  /\ Raise(pc, "EEException")
  /\ UNCHANGED <<sceneVars, rasterVars, catalog, config, s2_collection,
               collection_size, composite_image, ground_truth,
               training_data, classifier, classification_map, edges,
               binary_edges, field_boundaries, Map>>

PipelineNext ==
  \/ Configure \/ SelectScenes_ \/ GetSize \/ CheckSize \/ BuildComposite
  \/ DefineGroundTruth \/ Sample \/ Train \/ Classify \/ DetectEdges
  \/ Binarize \/ Vectorize \/ NewMap \/ CenterObject \/ AddCompositeLayer
  \/ AddSegmentationLayer \/ AddBoundaryLayer \/ AddLegend \/ Display
  \/ RemoteFailure

(***************************************************************************)
(* Specifications.  Spec is the script; SpecScene and SpecRaster run the   *)
(* per-pixel and per-raster functions on enumerated inputs.                *)
(***************************************************************************)
SceneIdle == image = None /\ masked_image = None /\ ndvi_image = None

RasterIdle == raster = None /\ binary_raster = None /\ rebinarized = None

PipelineIdle == PipelineInit /\ catalog = Filtered

Init == PipelineInit /\ SceneIdle /\ RasterIdle

Next == PipelineNext

Spec == Init /\ [][Next]_vars

SceneSpecInit == SceneInit /\ PipelineIdle /\ RasterIdle

SpecScene == SceneSpecInit /\ [][SceneNext]_vars

RasterSpecInit == RasterInit /\ PipelineIdle /\ SceneIdle

SpecRaster == RasterSpecInit /\ [][RasterNext]_vars

(***************************************************************************)
(* Properties.                                                             *)
(***************************************************************************)
Before(l, m) == Position(l) < Position(m)

\* The statements that bind a name, and the name each binds.
Binding ==
  { "configure", "select", "size", "composite", "ground_truth", "sample",
    "train", "classify", "canny", "binarize", "vectorize", "map" }

Bound(l) ==
  CASE l = "configure"    -> config
    [] l = "select"       -> s2_collection
    [] l = "size"         -> collection_size
    [] l = "composite"    -> composite_image
    [] l = "ground_truth" -> ground_truth
    [] l = "sample"       -> training_data
    [] l = "train"        -> classifier
    [] l = "classify"     -> classification_map
    [] l = "canny"        -> edges
    [] l = "binarize"     -> binary_edges
    [] l = "vectorize"    -> field_boundaries
    [] l = "map"          -> Map

Displayed == IsSet(Map) /\ Val(Map).displayed

NothingAfterSelection ==
  /\ composite_image = None /\ ground_truth = None /\ training_data = None
  /\ classifier = None /\ classification_map = None /\ edges = None
  /\ binary_edges = None /\ field_boundaries = None /\ Map = None

\* C1: when the filtered scene collection is empty the script raises at the
\* size check (the ValueError of line 51) and nothing downstream is ever
\* built: no composite, samples, classifier, classification, edges, vectors
\* or map, and no statement after the check has run.
C1_EmptyCollectionRaisesBeforeClassification ==
  (IsSet(s2_collection) /\ Val(s2_collection) = {}) =>
    /\ NothingAfterSelection
    /\ \A l \in Range(Statements) : Before("check", l) => runs[l] = 0
    /\ runs["check"] = 1 =>
         /\ pc = "aborted"
         /\ error = Some([type |-> "ValueError", at |-> "check"])

C1_Witness ==
  /\ pc = "aborted"
  /\ IsSet(s2_collection) /\ Val(s2_collection) = {}
  /\ IsSet(collection_size) /\ Val(collection_size) = 0
  /\ IsSet(error) /\ Val(error).type = "ValueError"

\* C2 as stated: after any error the run has halted, the failing call ran
\* once, nothing later ran, and no classification raster, boundary vector set
\* or displayed map exists.
C2_NoPartialOutputAfterError ==
  IsSet(error) =>
    /\ pc = "aborted"
    /\ runs[Val(error).at] = 1
    /\ \A l \in Range(Statements) : Before(Val(error).at, l) => runs[l] = 0
    /\ classification_map = None
    /\ field_boundaries = None
    /\ ~ Displayed

C2_HaltedAt(at) ==
  /\ pc = "aborted"
  /\ runs[at] = 1
  /\ \A l \in Range(Statements) :
       /\ Before(at, l) => runs[l] = 0
       /\ Before(l, at) => runs[l] = 1
  /\ \A l \in Binding :
       /\ ~ Before(l, at) => Bound(l) = None
       /\ Before(l, at) => IsSet(Bound(l))
  /\ ~ Displayed

\* C2, amended: an error halts the run at once and for good (no step is ever
\* taken from a state that holds an error), the failing statement ran once,
\* no later statement ran, neither the failing statement nor any later one
\* bound its output, and the map is never displayed; the outputs of the
\* statements that returned before the failure stay bound.
C2_ErrorHaltsRunKeepingEarlierOutputs ==
  /\ [](IsSet(error) => C2_HaltedAt(Val(error).at))
  /\ [](pc = "aborted" => IsSet(error))
  /\ [][error = None]_vars

C2_Witness ==
  /\ pc = "aborted"
  /\ IsSet(error) /\ Val(error).at = "vectorize"
  /\ IsSet(classification_map) /\ IsSet(binary_edges)
  /\ field_boundaries = None /\ Map = None

Bit(n, k) == (n \div 2 ^ k) % 2

\* C3: mask_s2_clouds keeps a pixel (all of its bands) exactly when bit 10
\* and bit 11 of its QA60 value are both clear, whatever the other bits are.
C3_MaskKeepsIffCloudAndCirrusBitsClear ==
  IsSet(masked_image) =>
    LET qa == Val(image).val["QA60"][1]
        clear == Bit(qa, 10) = 0 /\ Bit(qa, 11) = 0
    IN  \A b \in DOMAIN Val(masked_image).mask :
          Val(masked_image).mask[b] <=> clear

C3_Witness ==
  /\ IsSet(masked_image)
  /\ Val(image).val["QA60"][1] = 4096 + 1024 + 512 + 1
  /\ \A b \in DOMAIN Val(masked_image).mask : ~ Val(masked_image).mask[b]

\* C4: binarization maps every strictly positive edge strength to 1 and every
\* zero or negative one to 0, on the same pixels, and binarizing the binary
\* raster again returns it unchanged.
C4_BinarizationIsSignTestAndIdempotent ==
  /\ IsSet(binary_raster) =>
       /\ DOMAIN Val(binary_raster) = DOMAIN Val(raster)
       /\ \A p \in DOMAIN Val(raster) :
            /\ Val(raster)[p] > 0 => Val(binary_raster)[p] = 1
            /\ Val(raster)[p] <= 0 => Val(binary_raster)[p] = 0
  /\ IsSet(rebinarized) => rebinarized = binary_raster

C4_Witness ==
  /\ IsSet(rebinarized)
  /\ \E p, q, r \in DOMAIN Val(raster) :
       Val(raster)[p] > 0 /\ Val(raster)[q] = 0 /\ Val(raster)[r] < 0
  /\ \E p \in DOMAIN Val(rebinarized) : Val(rebinarized)[p] = 1

\* C5: every training sample carries, under 'landcover', the class value of
\* the polygon it was drawn from (1 for the two Field polygons, 0 for the
\* two Non-Field polygons), and 'landcover' is the classifier's class
\* property.
C5_SamplesCarryPolygonLabel ==
  /\ IsSet(training_data) =>
       \A smp \in Val(training_data) :
         /\ "landcover" \in DOMAIN smp.properties
         /\ smp.properties["landcover"] =
              Val(ground_truth)[smp.region].properties["landcover"]
         /\ smp.region \in {1, 2} => smp.properties["landcover"] = 1
         /\ smp.region \in {3, 4} => smp.properties["landcover"] = 0
  /\ IsSet(classifier) =>
       /\ Val(classifier).classProperty = "landcover"
       /\ Val(classifier).classes =
            {Val(ground_truth)[smp.region].properties["landcover"] :
               smp \in Val(training_data)}

C5_Witness ==
  /\ IsSet(classifier)
  /\ \E a, b \in Val(training_data) :
       /\ a.properties["landcover"] = 1 /\ a.region = 2
       /\ b.properties["landcover"] = 0 /\ b.region = 4

LabelsOf(gt_) == [i \in DOMAIN gt_ |-> gt_[i].properties["landcover"]]

C7_NdviIsNormalizedDifferenceOfB8AndB4 ==
  IsSet(ndvi_image) =>
    LET nir  == Val(image).val["B8"][1]
        red  == Val(image).val["B4"][1]
        kept == Val(masked_image).mask["B8"]
        v    == Val(ndvi_image).val["NDVI"]
    IN  /\ Val(masked_image).val["B8"][1] * ReflectanceScale
             = nir * Val(masked_image).val["B8"][2]
        /\ Val(ndvi_image).mask["NDVI"] <=> (kept /\ nir + red # 0)
        /\ nir + red # 0 =>
             /\ v[2] > 0
             /\ v[1] * (nir + red) = (nir - red) * v[2]
             /\ v = add_ndvi(Val(image)).val["NDVI"]
        /\ (nir = 5000 /\ red = 2000) =>
             /\ Abs(v[1] * 10000 - 4286 * v[2]) <= v[2]
             /\ Val(masked_image).val["B8"] = <<1, 2>>
             /\ Val(masked_image).val["B4"] = <<1, 5>>

C7_Witness ==
  /\ IsSet(ndvi_image)
  /\ Val(masked_image).val["B8"] = <<1, 2>>
  /\ Val(masked_image).val["B4"] = <<1, 5>>
  /\ Val(ndvi_image).mask["NDVI"]
  /\ Val(ndvi_image).val["NDVI"] = <<3, 7>>

\* The stages of the run, in the order the claim lists them.
StageOf(l) ==
  CASE l = "configure" -> 0
    [] l \in {"select", "size", "check"} -> 1
    [] l = "composite" -> 2
    [] l \in {"ground_truth", "sample"} -> 3
    [] l = "train" -> 4
    [] l = "classify" -> 5
    [] l = "canny" -> 6
    [] l = "binarize" -> 7
    [] l = "vectorize" -> 8
    [] l \in {"map", "center", "layer_rgb", "layer_seg", "layer_vec",
              "legend", "display"} -> 9
    [] l = "done" -> 10

\* A stage works only on what the stages before it returned.
C8_InputsReturned ==
  /\ IsSet(composite_image) => IsSet(s2_collection) /\ IsSet(collection_size)
  /\ IsSet(training_data) => IsSet(composite_image) /\ IsSet(ground_truth)
  /\ IsSet(classifier) => IsSet(training_data)
  /\ IsSet(classification_map) => IsSet(classifier)
  /\ IsSet(edges) => IsSet(classification_map)
  /\ IsSet(binary_edges) => IsSet(edges)
  /\ IsSet(field_boundaries) => IsSet(binary_edges)
  /\ IsSet(Map) => IsSet(field_boundaries)

\* C8: the run moves through the stages scene selection, composite build,
\* ground-truth sampling, training, classification, edge detection,
\* binarization, vectorization, rendering in that order, one statement at a
\* time; a stage starts only when the one before has returned, and no
\* statement runs twice.
C8_StrictlySequentialForwardOnly ==
  /\ [][ \/ pc' = "aborted"
         \/ /\ pc # "aborted"
            /\ Position(pc') = Position(pc) + 1
            /\ StageOf(pc') \in {StageOf(pc), StageOf(pc) + 1} ]_vars
  /\ [](\A l \in Range(Statements) : runs[l] <= 1)
  /\ [](pc \in Range(Statements) =>
          \A l \in Range(Statements) :
            runs[l] = IF Before(l, pc) THEN 1 ELSE 0)
  /\ []C8_InputsReturned

C8_Witness ==
  /\ pc = "done"
  /\ \A l \in Range(Statements) \ {"done"} : runs[l] = 1
  /\ Displayed /\ Len(Val(Map).layers) = 3

Stays(x, y) == IsSet(x) => y = x

\* C9: once bound, the configuration, the scene collection, the composite,
\* the ground truth, the training data, the classifier, the classification
\* raster, the edge rasters and the vector set are never rebound or changed
\* by any later statement, rendering included; the archive is only read.
C9_NoArtifactMutated ==
  [][ /\ Stays(config, config')
      /\ Stays(s2_collection, s2_collection')
      /\ Stays(collection_size, collection_size')
      /\ Stays(composite_image, composite_image')
      /\ Stays(ground_truth, ground_truth')
      /\ Stays(training_data, training_data')
      /\ Stays(classifier, classifier')
      /\ Stays(classification_map, classification_map')
      /\ Stays(edges, edges')
      /\ Stays(binary_edges, binary_edges')
      /\ Stays(field_boundaries, field_boundaries')
      /\ catalog' = catalog ]_vars

C9_Witness ==
  /\ Displayed
  /\ Val(config) = Configuration
  /\ Val(Map).layers[1].ee_object = Val(composite_image)
  /\ Val(Map).layers[2].ee_object = Val(classification_map)
  /\ Val(Map).layers[3].ee_object = Val(field_boundaries)
  /\ Val(s2_collection) \subseteq catalog

\* C10: the composite has exactly the bands B2, B3, B4, B8, NDVI; the
\* classifier's predictors are exactly those bands, each present in every
\* training sample and in the image that is classified; QA60 and the class
\* property are not predictors.
C10_PredictorsAreCompositeBands ==
  LET FeatureBandSet == {"B2", "B3", "B4", "B8", "NDVI"}
  IN  /\ IsSet(composite_image) =>
           /\ Len(Val(composite_image).bands) = 5
           /\ Range(Val(composite_image).bands) = FeatureBandSet
      /\ IsSet(training_data) =>
           \A smp \in Val(training_data) : smp.bands = FeatureBandSet
      /\ IsSet(classifier) =>
           /\ Range(Val(classifier).inputProperties) = FeatureBandSet
           /\ Range(Val(classifier).inputProperties)
                = Range(Val(composite_image).bands)
           /\ "QA60" \notin Range(Val(classifier).inputProperties)
           /\ Val(classifier).classProperty
                \notin Range(Val(classifier).inputProperties)

C10_Witness ==
  /\ IsSet(classification_map)
  /\ Val(classifier).inputProperties = Val(composite_image).bands
  /\ Val(training_data) # {}

====
